---- MODULE Spec2Model ----
(***************************************************************************)
(* Model of app.py, the Streamlit front-end of the thesis online appendix. *)
(* One script run renders one of four views; load_data is memoised by      *)
(* st.cache_data; the Appendix F and G views resolve a category column,    *)
(* filter by the selected value and (G) resolve the chart's series.        *)
(*                                                                         *)
(* Text is a sequence of one-character strings, so that upper(), strip()   *)
(* and the substring test act on characters.  "I_dot" stands for the       *)
(* single character U+0130 (capital I with dot above).  A cell is a        *)
(* string; "NaN" is the missing value pandas reads from an empty cell.     *)
(***************************************************************************)
EXTENDS Integers, Sequences, FiniteSets, TLC

\* ------------------------------------------------------------------ bounds
\* Largest number of data rows of a workbook drawn in InitWide.
MaxRows == 2

\* ------------------------------------------------------------ Python values
\* Python's None / an optional value: <<>> is None, <<x>> is the value x.
None == <<>>
Some(x) == <<x>>

\* The unset value of a widget (st.selectbox over no options returns None).
PyNone == "None"

\* Element-wise == of pandas: a missing value equals nothing, itself included.
PyEq(a, b) == a = b /\ a # "NaN" /\ b # "NaN"

Range(s) == {s[i] : i \in 1..Len(s)}

\* ------------------------------------------------------------------- text
LowerCase == <<"a", "b", "c", "d", "e", "f", "g", "h", "i", "j", "k", "l", "m", "n", "o", "p", "q", "r", "s", "t", "u", "v", "w", "x", "y", "z">>
UpperCase == <<"A", "B", "C", "D", "E", "F", "G", "H", "I", "J", "K", "L", "M", "N", "O", "P", "Q", "R", "S", "T", "U", "V", "W", "X", "Y", "Z">>

upper_char(c) ==
    IF \E i \in 1..Len(LowerCase) : LowerCase[i] = c
    THEN UpperCase[CHOOSE i \in 1..Len(LowerCase) : LowerCase[i] = c]
    ELSE c

\* str.upper()
upper(s) == [i \in 1..Len(s) |-> upper_char(s[i])]

RECURSIVE lstrip(_)
lstrip(s) == IF s # <<>> /\ s[1] = " " THEN lstrip(Tail(s)) ELSE s

RECURSIVE rstrip(_)
rstrip(s) == IF s # <<>> /\ s[Len(s)] = " " THEN rstrip(SubSeq(s, 1, Len(s) - 1)) ELSE s

\* str.strip()
strip(s) == rstrip(lstrip(s))

\* Python's  t in s  on strings
Contains(s, t) == \E i \in 0..(Len(s) - Len(t)) : SubSeq(s, i + 1, i + Len(t)) = t

\* str(col) of a two-level column label, a tuple: ('TOP', 'SUB')
str_tuple(col) == <<"(", "'">> \o col[1] \o <<"'", ",", " ", "'">> \o col[2] \o <<"'", ")">>

\* The literals the views search for.
TOK_PROVINCE == <<"P", "R", "O", "V", "I", "N", "C", "E">>
TOK_IL == <<"I_dot", "L">>
TOK_LEVEL == <<"L", "E", "V", "E", "L">>
col_year == <<"Y", "E", "A", "R">>
col_value == <<"T", "O", "T", "A", "L">>
TOK_TOTAL == <<"T", "O", "T", "A", "L">>
TOK_MALE == <<"M", "A", "L", "E">>
TOK_FEMALE == <<"F", "E", "M", "A", "L", "E">>

\* ------------------------------------------------------------ file names
FILE_E == "all_deaths-by_age_province.xlsx"
FILE_F == "derivation_threshold.xlsx"
FILE_G == "final_zero_age_estimates.xlsx"
Files == {FILE_E, FILE_F, FILE_G}

\* header_arg: <<0>> is header=0 (one header row), <<0, 1>> is header=[0, 1].
HEADER_FLAT == <<0>>
HEADER_TWO == <<0, 1>>
HeaderArgs == {HEADER_FLAT, HEADER_TWO}

\* ---------------------------------------------------------------- views
HOME == "Home"
APPENDIX_E == "Appendix E: Harmonized Mortality Data"
APPENDIX_F == "Appendix F: Derivation Process & Thresholds"
APPENDIX_G == "Appendix G: Supplementary Tables & Graphs"
Options == {HOME, APPENDIX_E, APPENDIX_F, APPENDIX_G}

\* ------------------------------------------------------------ pandas model
\* A DataFrame: cols (labels), nlevels (1 flat, 2 two-level labels),
\* index (row labels) and rows (cells, aligned with cols).

\* pd.read_excel(file_path, header=header_arg) of a parsable workbook wb,
\* wb.header being its header rows and wb.data its data rows.
read_excel(wb, header_arg) ==
    IF header_arg = HEADER_FLAT
    THEN [cols |-> wb.header[1], nlevels |-> 1,
          index |-> [i \in 1..Len(wb.data) |-> i - 1], rows |-> wb.data]
    ELSE [cols |-> [j \in 1..Len(wb.header[1]) |-> <<wb.header[1][j], wb.header[2][j]>>],
          nlevels |-> 2,
          index |-> [i \in 1..Len(wb.data) |-> i - 1], rows |-> wb.data]

\* Positions of the columns labelled label.
Positions(df, label) == {j \in 1..Len(df.cols) : df.cols[j] = label}

\* 'label' in df.columns
HasColumn(df, label) == Positions(df, label) # {}

\* df[label] when the label is unique: the column's values in row order.
Column(df, label) ==
    LET j == CHOOSE j \in Positions(df, label) : TRUE
    IN [i \in 1..Len(df.rows) |-> df.rows[i][j]]

\* Series.unique(): the distinct values in order of first appearance
\* (the missing value is one of them).
RECURSIVE unique(_)
unique(s) ==
    IF s = <<>> THEN <<>>
    ELSE LET u == unique(SubSeq(s, 1, Len(s) - 1))
         IN IF s[Len(s)] \in Range(u) THEN u ELSE Append(u, s[Len(s)])

\* Rows of df selected by a boolean mask, row labels kept.
RECURSIVE Keep(_, _)
Keep(idx, mask) ==
    IF idx = <<>> THEN <<>>
    ELSE (IF mask[Len(idx)] THEN Keep(SubSeq(idx, 1, Len(idx) - 1), mask) \o <<Len(idx)>>
          ELSE Keep(SubSeq(idx, 1, Len(idx) - 1), mask))

\* df[df[label] == value]
filter_rows_ne(df, label, value) ==
    LET col == Column(df, label)
        kept == Keep([i \in 1..Len(df.rows) |-> i], [i \in 1..Len(df.rows) |-> col[i] # value])
    IN [df EXCEPT !.index = [k \in 1..Len(kept) |-> df.index[kept[k]]],
                  !.rows = [k \in 1..Len(kept) |-> df.rows[kept[k]]]]

filter_rows(df, label, value) ==
    LET col == Column(df, label)
        kept == Keep([i \in 1..Len(df.rows) |-> i], [i \in 1..Len(df.rows) |-> PyEq(col[i], value)])
    IN [df EXCEPT !.index = [k \in 1..Len(kept) |-> df.index[kept[k]]],
                  !.rows = [k \in 1..Len(kept) |-> df.rows[kept[k]]]]

\* A cell as DataFrame.to_csv writes it: the missing value is the empty field.
csv_field(v) == IF v = "NaN" THEN "" ELSE v

\* DataFrame.to_csv(index=index): the header lines (one per label level) and
\* the data lines, each a sequence of fields; with index=True every line
\* leads with the index field (empty in the header lines).
to_csv_drop_first(df, index) ==
    [header |-> [l \in 1..df.nlevels |->
                    (IF index THEN << <<>> >> ELSE <<>>) \o
                    [j \in 1..Len(df.cols) |-> IF df.nlevels = 1 THEN df.cols[j] ELSE df.cols[j][l]]],
     body |-> [i \in 1..(Len(df.rows) - 1) |->
                    (IF index THEN <<ToString(df.index[i + 1])>> ELSE <<>>) \o
                    [j \in 1..Len(df.cols) |-> csv_field(df.rows[i + 1][j])]]]

to_csv(df, index) ==
    [header |-> [l \in 1..df.nlevels |->
                    (IF index THEN << <<>> >> ELSE <<>>) \o
                    [j \in 1..Len(df.cols) |-> IF df.nlevels = 1 THEN df.cols[j] ELSE df.cols[j][l]]],
     body |-> [i \in 1..Len(df.rows) |->
                    (IF index THEN <<ToString(df.index[i])>> ELSE <<>>) \o
                    [j \in 1..Len(df.cols) |-> csv_field(df.rows[i][j])]]]

\* st.selectbox(label, options): the widget's value when it is one of the
\* options, else the first option, else None.
selectbox(options, choice) ==
    IF options = <<>> THEN PyNone
    ELSE IF choice \in Range(options) THEN choice ELSE options[1]

\* ------------------------------------------------------- column resolution
\* Appendix F: the test of the loop over df_display.columns.
matches_F(col) ==
    Contains(upper(str_tuple(col)), TOK_PROVINCE) \/ Contains(upper(str_tuple(col)), TOK_IL)

\* Appendix F: province_col_key after the loop, None when no column matched.
province_col_key_last(cols) ==
    IF \E j \in 1..Len(cols) : matches_F(cols[j])
    THEN Some(cols[CHOOSE j \in 1..Len(cols) :
                     matches_F(cols[j]) /\ \A k \in (j + 1)..Len(cols) : ~matches_F(cols[k])])
    ELSE None

province_col_key(cols) ==
    IF \E j \in 1..Len(cols) : matches_F(cols[j])
    THEN Some(cols[CHOOSE j \in 1..Len(cols) :
                     matches_F(cols[j]) /\ \A k \in 1..(j - 1) : ~matches_F(cols[k])])
    ELSE None

\* Appendix G: df.columns = [str(c).upper().strip() for c in df.columns]
normalize_columns(cols) == [j \in 1..Len(cols) |-> strip(upper(cols[j]))]

\* Appendix G: the test of the generator passed to next().
matches_G(c) == Contains(c, TOK_LEVEL) \/ Contains(c, TOK_PROVINCE)

\* Appendix G: col_province, None when no column matched.
col_province(cols) ==
    IF \E j \in 1..Len(cols) : matches_G(cols[j])
    THEN Some(cols[CHOOSE j \in 1..Len(cols) :
                     matches_G(cols[j]) /\ \A k \in 1..(j - 1) : ~matches_G(cols[k])])
    ELSE None

\* Appendix G: y_columns after the three appends and the fallback.
y_columns_in_column_order(df) ==
    LET pos == {j \in 1..Len(df.cols) : df.cols[j] \in {TOK_TOTAL, TOK_MALE, TOK_FEMALE}}
        RECURSIVE take(_)
        take(j) == IF j > Len(df.cols) THEN <<>>
                   ELSE (IF j \in pos /\ \A k \in 1..(j - 1) : df.cols[k] # df.cols[j]
                         THEN <<df.cols[j]>> ELSE <<>>) \o take(j + 1)
    IN take(1)

y_columns(df) ==
    LET appended == (IF HasColumn(df, TOK_TOTAL) THEN <<TOK_TOTAL>> ELSE <<>>) \o
                    (IF HasColumn(df, TOK_MALE) THEN <<TOK_MALE>> ELSE <<>>) \o
                    (IF HasColumn(df, TOK_FEMALE) THEN <<TOK_FEMALE>> ELSE <<>>)
    IN IF appended = <<>> /\ HasColumn(df, col_value) THEN <<col_value>> ELSE appended

\* ------------------------------------------------------------------ views
\* What one script run has put on the page: the st.header text, the table
\* given to st.dataframe, the st.download_button, the st.warning and
\* st.error messages, the st.selectbox, the px.line chart, and whether the
\* run ended in an uncaught exception; category is the run's local
\* province_col_key (Appendix F) or col_province (Appendix G).
Page(header) ==
    [header |-> header, table |-> None, download |-> None, warning |-> <<>>,
     errors |-> <<>>, selectbox |-> None, chart |-> None, exception |-> FALSE,
     category |-> None]

HEADER_HOME == "About the Study"
HEADER_E == "Appendix E: Harmonized Mortality Data"
HEADER_F == "Appendix F: Derivation Process and Threshold Choices"
HEADER_G == "Appendix G: Province-Specific Estimates of Zero-Age Populations and Time-Series Trends"

CSV_E == "harmonized_mortality_appendix_e.csv"
CSV_F == "derivation_thresholds_appendix_f.csv"
CSV_G == "zero_age_estimates_appendix_g.csv"

WARN_NOT_FOUND == "not found. Please ensure it is in the same folder."
WARN_NO_PROVINCE == "Could not automatically detect 'Province' column for filtering. Showing full table below:"
ERR_READ == "Error reading file"
ERR_NO_SERIES == "Could not find data columns (TOTAL, MALE, FEMALE) to plot."
ERR_MISMATCH == "Column mismatch! Needed 'YEAR' and 'LEVEL/PROVINCE'."

\* The index= argument of the view's df.to_csv call.
csv_index_never(view) == FALSE

csv_index(view) == view = APPENDIX_F

view_home == Page(HEADER_HOME)

\* entry is what load_data gave: its return value and the st.error
\* messages it wrote (replayed by st.cache_data on a hit).
view_E(entry) ==
    IF entry.value # None
    THEN [Page(HEADER_E) EXCEPT
            !.errors = entry.msgs,
            !.table = entry.value,
            !.download = Some([data |-> to_csv(entry.value[1], csv_index(APPENDIX_E)),
                               file_name |-> CSV_E])]
    ELSE [Page(HEADER_E) EXCEPT !.errors = entry.msgs,
                                !.warning = << <<FILE_E, WARN_NOT_FOUND>> >>]

view_F(entry, choice) ==
    IF entry.value # None
    THEN LET df == entry.value[1]
             top == [Page(HEADER_F) EXCEPT
                        !.errors = entry.msgs,
                        !.download = Some([data |-> to_csv(df, csv_index(APPENDIX_F)),
                                           file_name |-> CSV_F])]
             df_display == df
             key == province_col_key(df_display.cols)
         IN IF key # None
            THEN LET provinces_list == unique(Column(df_display, key[1]))
                     selected_province == selectbox(provinces_list, choice)
                     filtered_df == filter_rows(df_display, key[1], selected_province)
                 IN [top EXCEPT
                        !.category = key,
                        !.selectbox = Some([options |-> provinces_list, value |-> selected_province]),
                        !.table = Some(filtered_df)]
            ELSE [top EXCEPT !.warning = << <<WARN_NO_PROVINCE>> >>, !.table = Some(df)]
    ELSE [Page(HEADER_F) EXCEPT !.errors = entry.msgs,
                                !.warning = << <<FILE_F, WARN_NOT_FOUND>> >>]

\* The table of the Appendix G view after the assignment to df.columns.
renamed_G(df) == [df EXCEPT !.cols = normalize_columns(df.cols)]

view_G(entry, choice) ==
    IF entry.value # None
    THEN LET df0 == entry.value[1]
             top0 == [Page(HEADER_G) EXCEPT
                        !.errors = entry.msgs,
                        !.table = Some(df0),
                        !.download = Some([data |-> to_csv(df0, csv_index(APPENDIX_G)),
                                           file_name |-> CSV_G])]
             df == renamed_G(df0)
             cp == col_province(df.cols)
             top == [top0 EXCEPT !.category = cp]
         IN IF cp # None /\ HasColumn(df, col_year)
            THEN IF Cardinality(Positions(df, cp[1])) > 1
                 THEN \* df[col_province] is a DataFrame, which has no unique()
                      [top EXCEPT !.exception = TRUE]
                 ELSE LET provinces_list == unique(Column(df, cp[1]))
                          selected_province == selectbox(provinces_list, choice)
                          filtered_df == filter_rows(df, cp[1], selected_province)
                          y == y_columns(df)
                          picked == [top EXCEPT !.selectbox =
                                        Some([options |-> provinces_list, value |-> selected_province])]
                      IN IF y # <<>>
                         THEN [picked EXCEPT !.chart =
                                  Some([data_frame |-> filtered_df, x |-> col_year, y |-> y,
                                        title |-> selected_province])]
                         ELSE [picked EXCEPT !.errors = Append(@, <<ERR_NO_SERIES>>)]
            ELSE [top EXCEPT !.errors = Append(@, <<ERR_MISMATCH>>)]
    ELSE [Page(HEADER_G) EXCEPT !.errors = entry.msgs,
                                !.warning = << <<FILE_G, WARN_NOT_FOUND>> >>]

\* ------------------------------------------------------------- load_data
\* The body of load_data: the value it returns and the st.error it writes.
load_data_empty_frame(file_name, header_arg, files) ==
    IF ~files[file_name].exists
    THEN [value |-> Some([cols |-> <<>>, nlevels |-> 1, index |-> <<>>, rows |-> <<>>]),
          msgs |-> <<>>]
    ELSE IF files[file_name].parsable
         THEN [value |-> Some(read_excel(files[file_name], header_arg)), msgs |-> <<>>]
         ELSE [value |-> None, msgs |-> << <<ERR_READ, file_name>> >>]

load_data(file_name, header_arg, files) ==
    IF ~files[file_name].exists
    THEN [value |-> None, msgs |-> <<>>]
    ELSE IF files[file_name].parsable
         THEN [value |-> Some(read_excel(files[file_name], header_arg)), msgs |-> <<>>]
         ELSE [value |-> None, msgs |-> << <<ERR_READ, file_name>> >>]

\* The key under which st.cache_data stores a call: the arguments.
cache_key_header_only(file_name, header_arg) == <<FILE_E, header_arg>>

cache_key(file_name, header_arg) == <<file_name, header_arg>>

CacheKeys == Files \X HeaderArgs

\* A call of the decorated load_data: on a hit the stored entry, without
\* running the body; on a miss the body's result, which is stored.
cached_load_data(c, file_name, header_arg, files) ==
    LET k == cache_key(file_name, header_arg)
    IN IF c[k] # None
       THEN [entry |-> c[k][1], cache |-> c, ran |-> FALSE]
       ELSE LET e == load_data(file_name, header_arg, files)
            IN [entry |-> e, cache |-> [c EXCEPT ![k] = Some(e)], ran |-> TRUE]

\* The cache after the caller has assigned to the columns of the table it
\* received: st.cache_data hands out a copy of the stored value, so the
\* stored value is as before.
cache_after_rename_shared(c, file_name, header_arg, df) ==
    [c EXCEPT ![cache_key(file_name, header_arg)] = Some([value |-> Some(df), msgs |-> <<>>])]

cache_after_rename(c, file_name, header_arg, df) == c

\* ----------------------------------------------------------- input files
\* Column labels of the workbooks the model reads.
L_YEAR == <<"Y", "E", "A", "R">>
L_LEVEL == <<"L", "E", "V", "E", "L">>
L_TOTAL == <<"T", "O", "T", "A", "L">>
L_MALE == <<"M", "A", "L", "E">>
L_FEMALE == <<"F", "E", "M", "A", "L", "E">>
L_PROVINCE == <<"P", "R", "O", "V", "I", "N", "C", "E">>
L_Year == <<"Y", "e", "a", "r">>
L_Year_pad == <<"y", "e", "a", "r", " ">>
L_Level == <<"L", "e", "v", "e", "l">>
L_Province == <<"P", "r", "o", "v", "i", "n", "c", "e">>
L_Il == <<"I_dot", "L">>
L_Total == <<"T", "o", "t", "a", "l">>
L_Total_pad == <<" ", "T", "o", "t", "a", "l", " ">>
L_Male == <<"M", "a", "l", "e">>
L_Female == <<"F", "e", "m", "a", "l", "e">>
L_Value == <<"V", "a", "l", "u", "e">>
L_Deaths == <<"D", "e", "a", "t", "h", "s">>
L_Threshold == <<"T", "h", "r", "e", "s", "h", "o", "l", "d">>
L_META == <<"M", "E", "T", "A">>
L_Meta == <<"M", "e", "t", "a">>
L_STEP1 == <<"S", "T", "E", "P", " ", "1">>
L_ProvinceData == <<"P", "r", "o", "v", "i", "n", "c", "e", " ", "d", "a", "t", "a">>

\* Labels of the columns that hold a province or level name; the other
\* columns hold numbers.
TextLabels == {L_LEVEL, L_Level, L_PROVINCE, L_Province, L_Il}

\* Values of a province / level cell; "NaN" is an empty cell.
Cats == {"Ankara", "Istanbul", "NaN"}

ABSENT == [exists |-> FALSE, parsable |-> FALSE, header |-> <<>>, data |-> <<>>]
CORRUPT == [exists |-> TRUE, parsable |-> FALSE, header |-> <<>>, data |-> <<>>]

\* A parsable workbook with the given header rows, one data row per entry of
\* catvals: text columns hold the entry, the others a number.
Workbook(header_rows, catvals) ==
    LET bottom == header_rows[Len(header_rows)]
    IN [exists |-> TRUE, parsable |-> TRUE, header |-> header_rows,
        data |-> [i \in 1..Len(catvals) |->
                    [j \in 1..Len(bottom) |->
                        IF bottom[j] \in TextLabels THEN catvals[i] ELSE ToString(10 * i + j)]]]

\* The contents each file takes under Spec.
ContentsOf(file_name) ==
    {ABSENT, CORRUPT} \cup
    (IF file_name = FILE_E
     THEN {Workbook(<< <<L_Year, L_Province, L_Deaths>> >>, <<"Ankara", "Istanbul">>),
           Workbook(<< <<L_Year, L_Province, L_Deaths>> >>, <<"Istanbul">>)}
     ELSE IF file_name = FILE_F
     THEN {Workbook(<< <<L_META, L_META, L_STEP1>>, <<L_PROVINCE, L_Threshold, L_Total>> >>,
                    <<"Ankara", "Istanbul", "Ankara">>)}
     ELSE {Workbook(<< <<L_Year, L_Level, L_Total, L_Male>> >>, <<"Ankara", "Istanbul">>),
           Workbook(<< <<L_YEAR, L_LEVEL, L_TOTAL>> >>, <<"Istanbul">>)})

\* All orderings of a set of labels.
Orderings(S) ==
    {s \in [1..Cardinality(S) -> S] : \A i, j \in 1..Cardinality(S) : i # j => s[i] # s[j]}

CatSeqs == UNION {[1..m -> Cats] : m \in 0..MaxRows}

\* The column sets of the Appendix G workbooks under SpecWide.
ColumnSetsG ==
    { {L_YEAR, L_LEVEL, L_TOTAL, L_MALE, L_FEMALE},
      {L_Year_pad, L_Level, L_Total_pad, L_Female},
      {L_Year, L_Level, L_Value},
      {L_Year, L_Province, L_Male},
      {L_Level, L_Total},
      {L_Year, L_Total},
      {L_Level, L_LEVEL, L_Year, L_Total},
      {L_Il, L_Year, L_Total},
      {L_Province, L_Level, L_Year, L_Total} }

\* The column sets (pairs of top and sub label) of the Appendix F workbooks
\* under SpecWide.
ColumnSetsF ==
    { {<<L_META, L_PROVINCE>>, <<L_META, L_Threshold>>, <<L_STEP1, L_Total>>},
      {<<L_Meta, L_Province>>, <<L_STEP1, L_Total>>},
      {<<L_META, L_Il>>, <<L_STEP1, L_Total>>},
      {<<L_META, L_Level>>, <<L_STEP1, L_Total>>},
      {<<L_META, L_Year>>, <<L_STEP1, L_Total>>},
      {<<L_ProvinceData, L_Year>>, <<L_META, L_Province>>, <<L_META, L_Il>>} }

WideG ==
    {Workbook(<<h>>, c) : h \in UNION {Orderings(S) : S \in ColumnSetsG}, c \in CatSeqs}

WideF ==
    {Workbook(<< [j \in 1..Len(h) |-> h[j][1]], [j \in 1..Len(h) |-> h[j][2]] >>, c) :
        h \in UNION {Orderings(S) : S \in ColumnSetsF}, c \in CatSeqs}

\* ------------------------------------------------------------------ state
VARIABLES
    fs,         \* file name -> what is on disk under that name
    cache,      \* st.cache_data: key -> None or the stored result of load_data
    selection,  \* the sidebar radio's value
    choice,     \* the selectbox widget's value, PyNone when there is none
    screen,     \* what the latest script run rendered
    loads,      \* (file_name, header_arg) -> the values of its last two load_data calls
    reads       \* (file_name, header_arg) -> how often the body of load_data ran for it

vars == <<fs, cache, selection, choice, screen, loads, reads>>

\* The state after the first script run: the radio is on its first option.
InitRun ==
    /\ cache = [k \in CacheKeys |-> None]
    /\ selection = HOME
    /\ choice = PyNone
    /\ screen = view_home
    /\ loads = [k \in CacheKeys |-> <<>>]
    /\ reads = [k \in CacheKeys |-> 0]

Init ==
    /\ fs \in [Files -> UNION {ContentsOf(f) : f \in Files}]
    /\ \A f \in Files : fs[f] \in ContentsOf(f)
    /\ InitRun

InitWide ==
    /\ \/ \E wb \in WideG : fs = [f \in Files |-> IF f = FILE_G THEN wb ELSE ABSENT]
       \/ \E wb \in WideF : fs = [f \in Files |-> IF f = FILE_F THEN wb ELSE ABSENT]
    /\ InitRun

\* ---------------------------------------------------------------- script
Last2(s) == IF Len(s) > 2 THEN SubSeq(s, Len(s) - 1, Len(s)) ELSE s

\* The bookkeeping of one load_data call with result r.
Note(file_name, header_arg, r) ==
    /\ loads' = [loads EXCEPT ![<<file_name, header_arg>>] = Last2(Append(@, r.entry.value))]
    /\ reads' = [reads EXCEPT ![<<file_name, header_arg>>] = IF r.ran /\ @ < 2 THEN @ + 1 ELSE @]

\* One run of the script with the radio on sel and the selectbox widget
\* holding ch: the if/elif chain over selection.
Run(sel, ch) ==
    /\ selection' = sel
    /\ UNCHANGED fs
    /\ IF sel = HOME
       THEN /\ screen' = view_home
            /\ UNCHANGED <<cache, loads, reads>>
       ELSE IF sel = APPENDIX_E
       THEN LET r == cached_load_data(cache, FILE_E, HEADER_FLAT, fs)
            IN /\ screen' = view_E(r.entry)
               /\ cache' = r.cache
               /\ Note(FILE_E, HEADER_FLAT, r)
       ELSE IF sel = APPENDIX_F
       THEN LET r == cached_load_data(cache, FILE_F, HEADER_TWO, fs)
            IN /\ screen' = view_F(r.entry, ch)
               /\ cache' = r.cache
               /\ Note(FILE_F, HEADER_TWO, r)
       ELSE IF sel = APPENDIX_G
       THEN LET r == cached_load_data(cache, FILE_G, HEADER_FLAT, fs)
            IN /\ screen' = view_G(r.entry, ch)
               /\ cache' = IF r.entry.value # None
                           THEN cache_after_rename(r.cache, FILE_G, HEADER_FLAT,
                                                   renamed_G(r.entry.value[1]))
                           ELSE r.cache
               /\ Note(FILE_G, HEADER_FLAT, r)
       ELSE /\ screen' = Page("")
            /\ UNCHANGED <<cache, loads, reads>>
    /\ choice' = IF screen'.selectbox # None THEN screen'.selectbox[1].value ELSE PyNone

\* The user picks a view in the sidebar (picking the current one stands for
\* any other interaction that reruns the script, such as a download click).
Select(v) == Run(v, IF v = selection THEN choice ELSE PyNone)

\* The user picks another entry of the selectbox on the page.
Pick(p) ==
    /\ screen.selectbox # None
    /\ p \in Range(screen.selectbox[1].options)
    /\ p # screen.selectbox[1].value
    /\ Run(selection, p)

\* A file is put in place, replaced or removed while the app is running.
Replace(f, wb) ==
    /\ wb # fs[f]
    /\ fs' = [fs EXCEPT ![f] = wb]
    /\ UNCHANGED <<cache, selection, choice, screen, loads, reads>>

SelectAny == \E v \in Options : Select(v)
PickAny == \E p \in Cats : Pick(p)
ReplaceAny == \E f \in Files : \E wb \in ContentsOf(f) : Replace(f, wb)

Next == SelectAny \/ PickAny \/ ReplaceAny
Spec == Init /\ [][Next]_vars

\* Under SpecWide the user moves between the two views that resolve columns.
SelectResolving == \E v \in {APPENDIX_F, APPENDIX_G} : Select(v)

NextWide == SelectResolving \/ PickAny
SpecWide == InitWide /\ [][NextWide]_vars

\* ================================================================ claims
DatasetViews == {APPENDIX_E, APPENDIX_F, APPENDIX_G}

FileOfView(v) == IF v = APPENDIX_E THEN FILE_E ELSE IF v = APPENDIX_F THEN FILE_F ELSE FILE_G
HeaderArgOfView(v) == IF v = APPENDIX_F THEN HEADER_TWO ELSE HEADER_FLAT
KeyOfView(v) == <<FileOfView(v), HeaderArgOfView(v)>>
HeaderOfView(v) ==
    IF v = HOME THEN HEADER_HOME ELSE IF v = APPENDIX_E THEN HEADER_E
    ELSE IF v = APPENDIX_F THEN HEADER_F ELSE HEADER_G
CsvNameOfView(v) == IF v = APPENDIX_E THEN CSV_E ELSE IF v = APPENDIX_F THEN CSV_F ELSE CSV_G

Last(s) == s[Len(s)]

\* What the latest load_data call of view v returned (None or <<table>>).
Loaded(v) == IF loads[KeyOfView(v)] = <<>> THEN None ELSE Last(loads[KeyOfView(v)])

\* The page shows the missing-file warning of file_name and no table,
\* download or chart, and the run did not end in an exception.
NotFoundPage(p, file_name) ==
    /\ p.warning = << <<file_name, WARN_NOT_FOUND>> >>
    /\ p.table = None /\ p.download = None /\ p.chart = None /\ p.selectbox = None
    /\ ~p.exception

ShowsError(p, text) == \E k \in 1..Len(p.errors) : p.errors[k][1] = text

\* ---- C1
\* C1 as stated: in every script run of a dataset view whose file does not
\* exist, load_data returns None and the view renders the missing-file
\* warning and no table, download or chart.
C1_Original ==
    [][ (fs' = fs) =>
          \A v \in DatasetViews :
              (selection' = v /\ ~fs[FileOfView(v)].exists) =>
                  /\ Last(loads'[KeyOfView(v)]) = None
                  /\ NotFoundPage(screen', FileOfView(v)) ]_vars

\* C1 amended: in every script run of a dataset view whose file does not
\* exist and for whose (file name, header shape) the cache holds no result,
\* load_data returns None without raising and the view renders the
\* missing-file warning and no table, download or chart.
C1_NotFound ==
    [][ (fs' = fs) =>
          \A v \in DatasetViews :
              (selection' = v /\ ~fs[FileOfView(v)].exists /\ cache[KeyOfView(v)] = None) =>
                  /\ Last(loads'[KeyOfView(v)]) = None
                  /\ NotFoundPage(screen', FileOfView(v)) ]_vars

C1_Witness ==
    /\ selection = APPENDIX_E
    /\ ~fs[FILE_E].exists
    /\ loads[KeyOfView(APPENDIX_E)] = <<None>>
    /\ reads[KeyOfView(APPENDIX_E)] = 1
    /\ NotFoundPage(screen, FILE_E)

\* ---- C2
\* C2 as stated: when load_data failed to parse an existing file, what it
\* returns differs from what it returns for a missing file, and the view
\* shows the parse failure and not the missing-file warning.
C2_Claim ==
    \A v \in DatasetViews :
        (selection = v /\ ShowsError(screen, ERR_READ)) =>
            /\ Loaded(v) # load_data(FileOfView(v), HeaderArgOfView(v), [f \in Files |-> ABSENT]).value
            /\ screen.warning = <<>>

\* ---- C3
\* C3: the last two load_data calls with the same file name and header
\* shape returned equal values (labels, row labels and cells), and the body
\* of load_data ran at most once for the key, whatever the views did with
\* the tables they received and whatever happened to the file.
C3_Idempotent ==
    \A k \in CacheKeys :
        /\ Len(loads[k]) = 2 => loads[k][1] = loads[k][2]
        /\ reads[k] <= 1

C3_Witness ==
    LET k == KeyOfView(APPENDIX_G)
    IN /\ Len(loads[k]) = 2
       /\ loads[k][2] # None
       /\ renamed_G(loads[k][2][1]).cols # loads[k][2][1].cols
       /\ ~fs[FILE_G].exists

\* ---- C4
MatchingRows(df, j, v) == {i \in 1..Len(df.rows) : PyEq(df.rows[i][j], v)}

\* sub holds exactly the rows of df whose cell in column j equals v (the ==
\* of pandas), each once, in the order and with the row labels of df.
ExactlyRows(sub, df, j, v) ==
    /\ Len(sub.rows) = Len(sub.index)
    /\ \A k \in 1..Len(sub.rows) :
          /\ sub.index[k] + 1 \in MatchingRows(df, j, v)
          /\ sub.rows[k] = df.rows[sub.index[k] + 1]
    /\ \A k \in 1..(Len(sub.rows) - 1) : sub.index[k] < sub.index[k + 1]
    /\ Len(sub.rows) = Cardinality(MatchingRows(df, j, v))

PositionOf(cols, label) == CHOOSE j \in 1..Len(cols) : cols[j] = label

\* C4: the table displayed under the selectbox of Appendix F, and the table
\* plotted in Appendix G, holds exactly the rows of the loaded table whose
\* category-column value equals the selected value; no row matching gives
\* an empty table and no exception.
C4_Filter ==
    /\ (selection = APPENDIX_F /\ screen.selectbox # None) =>
          LET df == Loaded(APPENDIX_F)[1]
          IN /\ ExactlyRows(screen.table[1], df, PositionOf(df.cols, screen.category[1]),
                            screen.selectbox[1].value)
             /\ screen.table[1].cols = df.cols
             /\ ~screen.exception
    /\ (selection = APPENDIX_G /\ screen.chart # None) =>
          LET df == Loaded(APPENDIX_G)[1]
          IN /\ ExactlyRows(screen.chart[1].data_frame, df,
                            PositionOf(normalize_columns(df.cols), screen.category[1]),
                            screen.selectbox[1].value)
             /\ ~screen.exception

C4_Witness ==
    /\ selection = APPENDIX_F
    /\ screen.selectbox # None
    /\ Len(screen.table[1].rows) = 1
    /\ Len(Loaded(APPENDIX_F)[1].rows) = 2

\* ---- C5
\* The entries of the vocabulary TOTAL, MALE, FEMALE that are in S, in
\* vocabulary order.
SeriesIn(S) ==
    (IF TOK_TOTAL \in S THEN <<TOK_TOTAL>> ELSE <<>>) \o
    (IF TOK_MALE \in S THEN <<TOK_MALE>> ELSE <<>>) \o
    (IF TOK_FEMALE \in S THEN <<TOK_FEMALE>> ELSE <<>>)

\* C5 as stated: the series of the chart are the vocabulary entries equal to
\* the upper-cased label of some column, in vocabulary order.
C5_Original ==
    (selection = APPENDIX_G /\ screen.chart # None) =>
        screen.chart[1].y = SeriesIn({upper(c) : c \in Range(Loaded(APPENDIX_G)[1].cols)})

\* C5 amended: the series of the chart are the vocabulary entries equal to
\* the upper-cased label, stripped of surrounding whitespace, of some
\* column, in vocabulary order whatever the column order; headers YEAR,
\* LEVEL, TOTAL, MALE, FEMALE give TOTAL, MALE, FEMALE.
C5_Series ==
    /\ (selection = APPENDIX_G /\ screen.chart # None) =>
          screen.chart[1].y = SeriesIn({strip(upper(c)) : c \in Range(Loaded(APPENDIX_G)[1].cols)})
    /\ (selection = APPENDIX_G /\ Loaded(APPENDIX_G) # None
          /\ Loaded(APPENDIX_G)[1].cols = <<L_YEAR, L_LEVEL, L_TOTAL, L_MALE, L_FEMALE>>) =>
          (screen.chart # None /\ screen.chart[1].y = <<TOK_TOTAL, TOK_MALE, TOK_FEMALE>>)

C5_Witness ==
    /\ selection = APPENDIX_G
    /\ screen.chart # None
    /\ screen.chart[1].y = <<TOK_TOTAL, TOK_MALE, TOK_FEMALE>>
    /\ Loaded(APPENDIX_G)[1].cols[1] = L_FEMALE
    /\ Loaded(APPENDIX_G)[1].cols[2] = L_MALE

\* ---- C6
\* C6 as stated: when the category column and YEAR are resolved, no column
\* is TOTAL, MALE or FEMALE and exactly one other column is left, the chart
\* is drawn with that column as its only series; the cannot-plot message
\* appears only when no other column is left.
C6_Claim ==
    (selection = APPENDIX_G /\ Loaded(APPENDIX_G) # None /\ screen.category # None
        /\ ~screen.exception
        /\ col_year \in Range(normalize_columns(Loaded(APPENDIX_G)[1].cols))) =>
        LET norm == normalize_columns(Loaded(APPENDIX_G)[1].cols)
            others == {j \in 1..Len(norm) : norm[j] \notin {screen.category[1], col_year}}
        IN /\ (SeriesIn(Range(norm)) = <<>> /\ Cardinality(others) = 1) =>
                 /\ screen.chart # None
                 /\ screen.chart[1].y = <<norm[CHOOSE j \in others : TRUE]>>
           /\ ShowsError(screen, ERR_NO_SERIES) => others = {}

\* ---- C7
\* The position of the first text that contains one of the tokens, 0 when
\* there is none.
FirstPos(texts, tokens) ==
    IF \E j \in 1..Len(texts) : \E t \in tokens : Contains(texts[j], t)
    THEN CHOOSE j \in 1..Len(texts) :
            /\ \E t \in tokens : Contains(texts[j], t)
            /\ \A k \in 1..(j - 1) : \A t \in tokens : ~Contains(texts[k], t)
    ELSE 0

\* Appendix F shows the whole table under the could-not-detect warning.
UnfilteredF(p, df) ==
    /\ p.table = Some(df) /\ p.selectbox = None
    /\ p.warning = << <<WARN_NO_PROVINCE>> >>
    /\ ~p.exception

\* Appendix G shows the whole table and the column-mismatch message.
UnfilteredG(p, df) ==
    /\ p.table = Some(df) /\ p.selectbox = None /\ p.chart = None
    /\ ShowsError(p, ERR_MISMATCH)
    /\ ~p.exception

\* The category column each view resolved is the first column, with labels
\* flattened by str() and upper-cased, that contains a token of tokensF
\* (Appendix F) or tokensG (Appendix G); with none resolved the view shows
\* the unfiltered table with a message.
CategoryResolution(tokensF, tokensG) ==
    /\ (selection = APPENDIX_F /\ Loaded(APPENDIX_F) # None) =>
          LET df == Loaded(APPENDIX_F)[1]
              pos == FirstPos([j \in 1..Len(df.cols) |-> upper(str_tuple(df.cols[j]))], tokensF)
          IN /\ screen.category = IF pos = 0 THEN None ELSE Some(df.cols[pos])
             /\ screen.category = None => UnfilteredF(screen, df)
    /\ (selection = APPENDIX_G /\ Loaded(APPENDIX_G) # None) =>
          LET df == Loaded(APPENDIX_G)[1]
              pos == FirstPos([j \in 1..Len(df.cols) |-> upper(df.cols[j])], tokensG)
          IN /\ screen.category = IF pos = 0 THEN None ELSE Some(strip(upper(df.cols[pos])))
             /\ screen.category = None => UnfilteredG(screen, df)

\* C7 as stated: both views search for PROVINCE, LEVEL and the Turkish
\* token.
C7_Original ==
    CategoryResolution({TOK_PROVINCE, TOK_LEVEL, TOK_IL}, {TOK_PROVINCE, TOK_LEVEL, TOK_IL})

\* C7 amended: Appendix F searches for PROVINCE and the Turkish token,
\* Appendix G for LEVEL and PROVINCE.
C7_Category ==
    CategoryResolution({TOK_PROVINCE, TOK_IL}, {TOK_LEVEL, TOK_PROVINCE})

C7_Witness ==
    /\ selection = APPENDIX_F
    /\ Loaded(APPENDIX_F) # None
    /\ Len(Loaded(APPENDIX_F)[1].cols) = 3
    /\ Loaded(APPENDIX_F)[1].cols[1] = <<L_META, L_Il>>
    /\ screen.category = Some(Loaded(APPENDIX_F)[1].cols[1])
    /\ matches_F(Loaded(APPENDIX_F)[1].cols[2])
    /\ screen.selectbox # None

\* ---- C8
\* C8: the export of a table with two-level labels has the row label as the
\* first field of every line (empty in the header lines), the export of a
\* table with flat labels has the columns' fields only, and the file name
\* of the export is the one of the view's dataset.
C8_Export ==
    (selection \in DatasetViews /\ screen.download # None) =>
        LET df == Loaded(selection)[1]
            csv == screen.download[1].data
            n == Len(df.cols)
        IN /\ Len(csv.body) = Len(df.rows)
           /\ Len(csv.header) = df.nlevels
           /\ df.nlevels = 2 =>
                /\ \A i \in 1..Len(csv.body) :
                      Len(csv.body[i]) = n + 1 /\ csv.body[i][1] = ToString(df.index[i])
                /\ \A l \in 1..Len(csv.header) :
                      Len(csv.header[l]) = n + 1 /\ csv.header[l][1] = <<>>
           /\ df.nlevels = 1 =>
                /\ \A i \in 1..Len(csv.body) : Len(csv.body[i]) = n
                /\ csv.header[1] = df.cols
           /\ screen.download[1].file_name = CsvNameOfView(selection)

C8_Witness ==
    /\ selection = APPENDIX_F
    /\ screen.download # None
    /\ Len(screen.download[1].data.body) = 3
    /\ screen.download[1].data.body[3][1] = "2"
    /\ Loaded(APPENDIX_F)[1].nlevels = 2

\* ---- C9
\* The cells of the rows of df as to_csv writes them.
RowsAsFields(df) ==
    [i \in 1..Len(df.rows) |-> [j \in 1..Len(df.cols) |-> csv_field(df.rows[i][j])]]

\* The data lines of an export without the leading row-label field.
CsvDataRows(csv, n) ==
    [i \in 1..Len(csv.body) |-> SubSeq(csv.body[i], Len(csv.body[i]) - n + 1, Len(csv.body[i]))]

\* C9 as stated: the rows of the export are the rows of the displayed table.
C9_Original ==
    (selection \in DatasetViews /\ screen.download # None) =>
        CsvDataRows(screen.download[1].data, Len(screen.table[1].cols)) = RowsAsFields(screen.table[1])

\* C9 amended: in the Appendix E and Appendix G views the rows of the export
\* are the rows of the displayed table; in the Appendix F view the rows of
\* the export are all rows of the loaded table, also when a province is
\* selected and the displayed table is the filtered subset.
C9_Export ==
    (selection \in DatasetViews /\ screen.download # None) =>
        IF selection = APPENDIX_F
        THEN CsvDataRows(screen.download[1].data, Len(Loaded(APPENDIX_F)[1].cols))
                = RowsAsFields(Loaded(APPENDIX_F)[1])
        ELSE CsvDataRows(screen.download[1].data, Len(screen.table[1].cols))
                = RowsAsFields(screen.table[1])

C9_Witness ==
    /\ selection = APPENDIX_F
    /\ screen.download # None
    /\ screen.selectbox # None
    /\ screen.selectbox[1].value = "Istanbul"
    /\ Len(screen.table[1].rows) = 1
    /\ Len(screen.download[1].data.body) = 3

====
